---- MODULE Spec2Model ----
(***************************************************************************)
(* tinypaint: a producer thread posts DrawEvents through an event-loop     *)
(* proxy; the event loop hands them to the Renderer, whose Commands batch  *)
(* run-length encodes them into draw commands over one vertex sequence.    *)
(*                                                                         *)
(* Four specifications over the same variables:                            *)
(*   BatchSpec   the Commands batch alone, driven by direct enqueue_* /    *)
(*               prepare / render calls (src/src/command.rs);              *)
(*   ConvertSpec the coordinate conversion alone, over canvas sizes and    *)
(*               points up to the u32 range (src/src/context.rs);          *)
(*   Spec        the whole program: draw(), the producer thread, the winit *)
(*               event loop of Canvas::run and the Renderer;               *)
(*   FairSpec    Spec with the fairness of the event loop's scheduling.    *)
(***************************************************************************)
EXTENDS Integers, Sequences, FiniteSets, TLC

(***************************************************************************)
(* Bounds of the model.                                                    *)
(***************************************************************************)
\* number of draw_* calls the producer callback makes (Spec)
MaxPosts == 3
\* number of enqueue_* calls made on the batch (BatchSpec)
MaxEnqueues == 4
\* number of draw_* calls the producer callback makes (FairSpec)
MaxFairPosts == 2

(***************************************************************************)
(* u32 values.  TLC integers stop at 2^31 - 1, so an unsigned value is     *)
(* kept as [hi, lo] standing for hi * 2^31 + lo with lo < 2^31; a u32 has  *)
(* hi in {0, 1}.                                                           *)
(***************************************************************************)
Two30 == 1073741824

u32(n) == [hi |-> 0, lo |-> n]

\* 2^31 + n
u32_high(n) == [hi |-> 1, lo |-> n]

\* the mathematical product w * 2
double(w) ==
    [hi |-> 2 * w.hi + (IF w.lo >= Two30 THEN 1 ELSE 0),
     lo |-> 2 * (w.lo % Two30)]

\* reduction modulo 2^32
wrap32(w) == [hi |-> w.hi % 2, lo |-> w.lo]

\* `x * 2` on u32 overflows
mul2_overflows(x) == double(x).hi >= 2

(***************************************************************************)
(* Color (color.rs).  The f32 components used are 0.0 and 1.0.             *)
(***************************************************************************)
rgba(r, g, b, a) == [r |-> r, g |-> g, b |-> b, a |-> a]

rgb(r, g, b) == [r |-> r, g |-> g, b |-> b, a |-> 1]

RED == rgb(1, 0, 0)

GREEN == rgb(0, 1, 0)

BLUE == rgb(0, 0, 1)

(***************************************************************************)
(* Coordinate conversion (context.rs).  An f32 result is kept as the term  *)
(* sign * (num / den - 1): num is the u32 product x * 2 as the build       *)
(* computes it (wrapped), den is max.  The casts to f32 and the division   *)
(* are kept exact: the term records the operands, not a rounded quotient.  *)
(***************************************************************************)
convert_x(x, max) == [num |-> wrap32(double(x)), den |-> max, sign |-> 1]

convert_y(y, max) == [num |-> wrap32(double(y)), den |-> max, sign |-> -1]

\* faulty variant: the vertex gets a fixed color instead of the given one
convert_point_fixed_color(self, p, color) ==
    [position |-> <<convert_x(p[1], self.width), convert_y(p[2], self.height)>>,
     color    |-> rgb(0, 0, 0)]

\* CanvasContext::convert_point
convert_point(self, p, color) ==
    [position |-> <<convert_x(p[1], self.width), convert_y(p[2], self.height)>>,
     color    |-> color]

\* with overflow checks the multiplication panics instead of wrapping
convert_panics(checks, p) ==
    checks /\ (mul2_overflows(p[1]) \/ mul2_overflows(p[2]))

(***************************************************************************)
(* DrawEvent (vertex.rs).                                                  *)
(***************************************************************************)
DrawEvent_Point(p0) == [kind |-> "Point", vs |-> <<p0>>]

DrawEvent_Line(p0, p1) == [kind |-> "Line", vs |-> <<p0, p1>>]

DrawEvent_Triangle(p0, p1, p2) == [kind |-> "Triangle", vs |-> <<p0, p1, p2>>]

(***************************************************************************)
(* DrawPrimitive and Command (command.rs).                                 *)
(***************************************************************************)
DrawPrimitive == {"Point", "Line", "Triangle"}

vertex_count(primitive) ==
    CASE primitive = "Point"    -> 1
      [] primitive = "Line"     -> 2
      [] primitive = "Triangle" -> 3

Command_new(primitive, begin_index) ==
    [primitive |-> primitive, begin_index |-> begin_index, count |-> 1]

\* faulty variant: the run's count is left out of the range
end_index_ignores_count(command) ==
    command.begin_index + vertex_count(command.primitive)

end_index(command) ==
    command.begin_index + command.count * vertex_count(command.primitive)

\* faulty variant: the count is not incremented
inc_noop(command) == command

inc(command) == [command EXCEPT !.count = @ + 1]

\* faulty variant: the run starts at the index after the pushed vertex
Command_point_after_push(begin_index) == Command_new("Point", begin_index + 1)

Command_point(begin_index) == Command_new("Point", begin_index)

Command_line(begin_index) == Command_new("Line", begin_index)

Command_triangle(begin_index) == Command_new("Triangle", begin_index)

(***************************************************************************)
(* Commands (command.rs): the batch.  An Option is a sequence of length 0  *)
(* (None) or 1 (Some); buffer is None or the vertices uploaded by the last *)
(* prepare.                                                                *)
(***************************************************************************)
None == <<>>

Some(x) == <<x>>

Commands_new == [commands |-> <<>>, vertices |-> <<>>, buffer |-> None]

\* faulty variant: only runs of points are merged
merge_or_push_points_only(self, primitive, fresh) ==
    IF Len(self.commands) > 0
       /\ primitive = "Point"
       /\ self.commands[Len(self.commands)].primitive = primitive
    THEN [self.commands EXCEPT ![Len(self.commands)] = inc(@)]
    ELSE Append(self.commands, fresh)

\* faulty variant: a command is pushed for every primitive, never merged
merge_or_push_never_merges(self, primitive, fresh) ==
    Append(self.commands, fresh)

\* the match on self.commands.last_mut() shared by the three enqueue_*
merge_or_push(self, primitive, fresh) ==
    IF Len(self.commands) > 0
       /\ self.commands[Len(self.commands)].primitive = primitive
    THEN [self.commands EXCEPT ![Len(self.commands)] = inc(@)]
    ELSE Append(self.commands, fresh)

\* faulty variant: the vertex is put in front of the sequence
enqueue_point_prepends(self, p0) ==
    [self EXCEPT
       !.commands = merge_or_push(self, "Point", Command_point(Len(self.vertices))),
       !.vertices = <<p0>> \o self.vertices]

enqueue_point(self, p0) ==
    [self EXCEPT
       !.commands = merge_or_push(self, "Point", Command_point(Len(self.vertices))),
       !.vertices = Append(self.vertices, p0)]

\* faulty variant: the two vertices are pushed in the wrong order
enqueue_line_swapped(self, p0, p1) ==
    [self EXCEPT
       !.commands = merge_or_push(self, "Line", Command_line(Len(self.vertices))),
       !.vertices = Append(Append(self.vertices, p1), p0)]

enqueue_line(self, p0, p1) ==
    [self EXCEPT
       !.commands = merge_or_push(self, "Line", Command_line(Len(self.vertices))),
       !.vertices = Append(Append(self.vertices, p0), p1)]

\* faulty variant: the third vertex is not pushed
enqueue_triangle_drops_p2(self, p0, p1, p2) ==
    [self EXCEPT
       !.commands = merge_or_push(self, "Triangle", Command_triangle(Len(self.vertices))),
       !.vertices = Append(Append(self.vertices, p0), p1)]

enqueue_triangle(self, p0, p1, p2) ==
    [self EXCEPT
       !.commands = merge_or_push(self, "Triangle", Command_triangle(Len(self.vertices))),
       !.vertices = Append(Append(Append(self.vertices, p0), p1), p2)]

\* faulty variant: only the vertices added since the last upload are uploaded
prepare_only_new(self) ==
    [self EXCEPT !.buffer =
        Some(IF self.buffer = None
             THEN self.vertices
             ELSE SubSeq(self.vertices, Len(self.buffer[1]) + 1,
                         Len(self.vertices)))]

prepare(self) == [self EXCEPT !.buffer = Some(self.vertices)]

\* faulty variant: lines are drawn with the triangle pipeline
pipeline_of_line_as_triangle(primitive) ==
    CASE primitive = "Point"    -> "point_pipeline"
      [] primitive = "Line"     -> "triangle_pipeline"
      [] primitive = "Triangle" -> "triangle_pipeline"

\* the pipeline selected for a command
pipeline_of(primitive) ==
    CASE primitive = "Point"    -> "point_pipeline"
      [] primitive = "Line"     -> "line_pipeline"
      [] primitive = "Triangle" -> "triangle_pipeline"

\* faulty variant: the draw calls are issued newest command first
Commands_render_reversed(self) ==
    IF self.buffer = None
    THEN [panic |-> TRUE, bound |-> <<>>, draws |-> <<>>]
    ELSE [panic |-> FALSE,
          bound |-> <<self.buffer[1]>>,
          draws |-> [i \in 1..Len(self.commands) |->
                       LET c == self.commands[Len(self.commands) + 1 - i]
                       IN  [pipeline  |-> pipeline_of(c.primitive),
                            vertices  |-> <<c.begin_index, end_index(c)>>,
                            instances |-> <<0, 1>>]]]

\* Commands::render: the calls recorded on the render pass, or a panic when
\* the buffer is None (unwrap)
Commands_render(self) ==
    IF self.buffer = None
    THEN [panic |-> TRUE, bound |-> <<>>, draws |-> <<>>]
    ELSE [panic |-> FALSE,
          bound |-> <<self.buffer[1]>>,
          draws |-> [i \in 1..Len(self.commands) |->
                       [pipeline  |-> pipeline_of(self.commands[i].primitive),
                        vertices  |-> <<self.commands[i].begin_index,
                                        end_index(self.commands[i])>>,
                        instances |-> <<0, 1>>]]]

\* faulty variant: a line event is forwarded to enqueue_point
handle_event_line_as_point(self, event) ==
    CASE event.kind = "Point"    -> enqueue_point(self, event.vs[1])
      [] event.kind = "Line"     -> enqueue_point(self, event.vs[1])
      [] event.kind = "Triangle" ->
             enqueue_triangle(self, event.vs[1], event.vs[2], event.vs[3])

\* Renderer::handle_event
handle_event(self, event) ==
    CASE event.kind = "Point"    -> enqueue_point(self, event.vs[1])
      [] event.kind = "Line"     -> enqueue_line(self, event.vs[1], event.vs[2])
      [] event.kind = "Triangle" ->
             enqueue_triangle(self, event.vs[1], event.vs[2], event.vs[3])

(***************************************************************************)
(* EventLoopProxy::send_event: the event joins the loop's queue, or the    *)
(* call fails with EventLoopClosed once the event loop has been dropped.   *)
(***************************************************************************)
send_event(queue, loop_state, event) ==
    IF loop_state = "exited"
    THEN [ok |-> FALSE, queue |-> queue]
    ELSE [ok |-> TRUE, queue |-> Append(queue, event)]

\* the event popped for Event::UserEvent(e)
next_user_event(queue) == Head(queue)

\* the events built by CanvasContext::draw_point / draw_line / draw_triangle
draw_point_event(self, p0, color) ==
    DrawEvent_Point(convert_point(self, p0, color))

draw_line_event(self, p0, p1, color) ==
    DrawEvent_Line(convert_point(self, p0, color), convert_point(self, p1, color))

draw_triangle_event(self, p0, p1, p2, color) ==
    DrawEvent_Triangle(convert_point(self, p0, color),
                       convert_point(self, p1, color),
                       convert_point(self, p2, color))

(***************************************************************************)
(* Inputs.                                                                 *)
(***************************************************************************)
\* draw(width, height, ..)
Sizes == {<<u32(800), u32(600)>>}

PA == <<u32(20), u32(20)>>

PB == <<u32(700), u32(500)>>

PC == <<u32(400), u32(200)>>

\* a coordinate whose doubling does not fit in a u32
PO == <<u32_high(0), u32(20)>>

PointCalls == {<<PA, RED>>, <<PO, GREEN>>}

LineCalls == {<<PA, PB, GREEN>>}

TriangleCalls == {<<PA, PB, PC, BLUE>>}

\* vertices handed straight to Commands::enqueue_* (BatchSpec)
V1 == [position |-> <<convert_x(u32(20), u32(800)), convert_y(u32(20), u32(600))>>, color |-> RED]

V2 == [position |-> <<convert_x(u32(700), u32(800)), convert_y(u32(500), u32(600))>>, color |-> GREEN]

V3 == [position |-> <<convert_x(u32(400), u32(800)), convert_y(u32(200), u32(600))>>, color |-> BLUE]

BatchPoints == {<<V1>>, <<V2>>}

BatchLines == {<<V1, V2>>, <<V2, V1>>}

BatchTriangles == {<<V1, V2, V3>>, <<V3, V1, V2>>}

(***************************************************************************)
(* State.                                                                  *)
(***************************************************************************)
VARIABLES
    ctx,                \* the CanvasContext: [width, height] (its proxy is `channel`)
    overflow_checks,    \* whether the build panics on integer overflow
    producer,           \* the thread running func(context)
    channel,            \* events sent through the proxy and not yet dispatched
    loop,               \* the winit event loop of Canvas::run
    redraw_requested,   \* window.request_redraw() is pending
    renderer_commands,  \* Renderer.commands: the Commands batch
    pass,               \* what the last Commands::render recorded
    last_surface,       \* history: what the last get_current_texture() returned
    last_frame,         \* how the last RedrawRequested ended
    result,             \* what draw() resolved to
    exit_causes,        \* history: why elwt.exit() was called
    calls,              \* history: the number of draw_* calls made
    last_call,          \* history: the last draw_* call and its arguments
    posted,             \* history: the events sent, in send order
    enqueued            \* history: the enqueue_* calls made on the batch

vars == <<ctx, overflow_checks, producer, channel, loop, redraw_requested,
          renderer_commands, pass, last_surface, last_frame, result,
          exit_causes, calls,
          last_call, posted, enqueued>>

loop_vars ==
    <<loop, redraw_requested, last_surface, last_frame, result, exit_causes>>

producer_vars ==
    <<ctx, overflow_checks, producer, channel, calls, last_call, posted>>

batch_vars == <<renderer_commands, pass, enqueued>>

\* draw(): Canvas::new, canvas.context(), thread::spawn; canvas.run() is next
Init ==
    /\ \E size \in Sizes : ctx = [width |-> size[1], height |-> size[2]]
    /\ overflow_checks \in BOOLEAN
    /\ producer = "running"
    /\ channel = <<>>
    /\ loop = "created"
    /\ redraw_requested = FALSE
    /\ renderer_commands = Commands_new
    /\ pass = None
    /\ last_surface = "none"
    /\ last_frame = "none"
    /\ result = "pending"
    /\ exit_causes = {}
    /\ calls = 0
    /\ last_call = None
    /\ posted = <<>>
    /\ enqueued = <<>>

(***************************************************************************)
(* The producer thread: func(context).                                     *)
(***************************************************************************)
\* faulty variant: the Result of send_event is dropped, not unwrapped
expect_never_panics(sent) == FALSE

\* Result::expect on what send_event returned
expect_panics(sent) == ~sent.ok

\* one draw_* call: the points are converted in argument order, then the
\* event is sent and the Result unwrapped with expect
DrawCall(method, points, color, event) ==
    /\ producer = "running"
    /\ calls < MaxPosts
    /\ calls' = calls + 1
    /\ last_call' = Some([method |-> method, points |-> points, color |-> color])
    /\ IF \E i \in 1..Len(points) : convert_panics(overflow_checks, points[i])
       THEN /\ producer' = "panicked: attempt to multiply with overflow"
            /\ UNCHANGED <<channel, posted>>
       ELSE LET sent == send_event(channel, loop, event)
            IN  /\ channel' = sent.queue
                /\ posted' = IF sent.ok THEN Append(posted, event) ELSE posted
                /\ producer' = IF expect_panics(sent)
                               THEN "panicked: Failed to send draw event"
                               ELSE producer
    /\ UNCHANGED <<ctx, overflow_checks>>
    /\ UNCHANGED loop_vars
    /\ UNCHANGED batch_vars

draw_point ==
    \E c \in PointCalls :
        DrawCall("draw_point", <<c[1]>>, c[2], draw_point_event(ctx, c[1], c[2]))

draw_line ==
    \E c \in LineCalls :
        DrawCall("draw_line", <<c[1], c[2]>>, c[3],
                 draw_line_event(ctx, c[1], c[2], c[3]))

draw_triangle ==
    \E c \in TriangleCalls :
        DrawCall("draw_triangle", <<c[1], c[2], c[3]>>, c[4],
                 draw_triangle_event(ctx, c[1], c[2], c[3], c[4]))

\* func returns
ProducerReturn ==
    /\ producer = "running"
    /\ producer' = "returned"
    /\ UNCHANGED <<ctx, overflow_checks, channel, calls, last_call, posted>>
    /\ UNCHANGED loop_vars
    /\ UNCHANGED batch_vars

(***************************************************************************)
(* The event loop: Canvas::run and the closure it hands to winit.          *)
(***************************************************************************)
\* the closure is being called: from event_loop.run until it returns; after
\* elwt.exit() winit still delivers what is left of the current iteration
Dispatching == loop \in {"running", "exiting"}

\* canvas.run() reaches event_loop.run
LoopStart ==
    /\ loop = "created"
    /\ loop' = "running"
    /\ UNCHANGED <<redraw_requested, last_surface, last_frame, result, exit_causes>>
    /\ UNCHANGED producer_vars
    /\ UNCHANGED batch_vars

\* WindowEvent::CloseRequested => elwt.exit()
CloseRequested ==
    /\ Dispatching
    /\ loop' = "exiting"
    /\ exit_causes' = exit_causes \cup {"close"}
    /\ UNCHANGED <<redraw_requested, last_surface, last_frame, result>>
    /\ UNCHANGED producer_vars
    /\ UNCHANGED batch_vars

\* surface.get_current_texture()
SurfaceResults == {"Ok", "Lost", "OutOfMemory", "Timeout", "Outdated"}

\* faulty variant: the frame is rendered without preparing the batch
render_frame_skips_prepare(self) ==
    [commands |-> self, pass |-> Commands_render(self)]

\* faulty variant: the batch is emptied once its frame is drawn
render_frame_clears_batch(self) ==
    LET prepared == prepare(self)
    IN  [commands |-> [prepared EXCEPT !.commands = <<>>, !.vertices = <<>>],
         pass     |-> Commands_render(prepared)]

\* Renderer::render after a texture was acquired: prepare, the render pass,
\* submit and present
render_frame(self) ==
    LET prepared == prepare(self)
    IN  [commands |-> prepared, pass |-> Commands_render(prepared)]

\* faulty variant: a lost surface is treated as fatal
redraw_outcome_lost_is_fatal(surface) ==
    CASE surface = "Ok"          -> "presented"
      [] surface = "Lost"        -> "exit"
      [] surface = "OutOfMemory" -> "exit"
      [] OTHER                   -> "logged"

\* faulty variant: every error of the surface ends the loop
redraw_outcome_any_error_exits(surface) ==
    CASE surface = "Ok"          -> "presented"
      [] surface = "Lost"        -> "reconfigured"
      [] OTHER                   -> "exit"

\* the match on self.renderer.render() of WindowEvent::RedrawRequested
redraw_outcome(surface) ==
    CASE surface = "Ok"          -> "presented"
      [] surface = "Lost"        -> "reconfigured"
      [] surface = "OutOfMemory" -> "exit"
      [] OTHER                   -> "logged"

\* faulty variant: the batch is prepared before the texture is acquired
Renderer_render_prepares_first(self, submitted, surface) ==
    IF surface = "Ok"
    THEN [commands |-> render_frame(self).commands,
          pass     |-> Some(render_frame(self).pass)]
    ELSE [commands |-> prepare(self), pass |-> submitted]

\* Renderer::render: `?` returns the SurfaceError before anything is prepared,
\* encoded or submitted; submitted is the pass of the last presented frame
Renderer_render(self, submitted, surface) ==
    IF surface = "Ok"
    THEN [commands |-> render_frame(self).commands,
          pass     |-> Some(render_frame(self).pass)]
    ELSE [commands |-> self, pass |-> submitted]

\* WindowEvent::RedrawRequested when get_current_texture() returns surface
RedrawWith(surface) ==
    /\ Dispatching
    /\ redraw_requested
    /\ redraw_requested' = FALSE
    /\ last_surface' = surface
    /\ last_frame' = redraw_outcome(surface)
    /\ renderer_commands' =
         Renderer_render(renderer_commands, pass, surface).commands
    /\ pass' = Renderer_render(renderer_commands, pass, surface).pass
    /\ IF redraw_outcome(surface) = "exit"
       THEN /\ loop' = "exiting"
            /\ exit_causes' = exit_causes \cup {"oom"}
       ELSE UNCHANGED <<loop, exit_causes>>
    /\ UNCHANGED <<result, enqueued>>
    /\ UNCHANGED producer_vars

\* WindowEvent::RedrawRequested
RedrawRequested == \E surface \in SurfaceResults : RedrawWith(surface)

\* Event::UserEvent(e) => self.renderer.handle_event(e)
UserEvent ==
    /\ Dispatching
    /\ channel /= <<>>
    /\ LET e == next_user_event(channel)
       IN  /\ renderer_commands' = handle_event(renderer_commands, e)
           /\ enqueued' = Append(enqueued, e)
    /\ channel' = Tail(channel)
    /\ UNCHANGED <<ctx, overflow_checks, producer, calls, last_call, posted, pass>>
    /\ UNCHANGED loop_vars

\* faulty variant: the idle tick requests no redraw
AboutToWait_requests_nothing ==
    /\ Dispatching
    /\ UNCHANGED vars

\* Event::AboutToWait => self.window.request_redraw()
AboutToWait ==
    /\ Dispatching
    /\ redraw_requested' = TRUE
    /\ UNCHANGED <<loop, last_surface, last_frame, result, exit_causes>>
    /\ UNCHANGED producer_vars
    /\ UNCHANGED batch_vars

\* any other event: `_ => ()`
OtherEvent ==
    /\ Dispatching
    /\ UNCHANGED vars

\* event_loop.run returns after elwt.exit(); the closure, the Renderer and the
\* event loop (with the events still queued) are dropped; run() maps the
\* loop's Ok(()) through map_err and draw() returns it
run_result(causes) == "Ok"

LoopReturn ==
    /\ loop = "exiting"
    /\ loop' = "exited"
    /\ channel' = <<>>
    /\ redraw_requested' = FALSE
    /\ result' = run_result(exit_causes)
    /\ UNCHANGED <<last_surface, last_frame, exit_causes>>
    /\ UNCHANGED <<ctx, overflow_checks, producer, calls, last_call, posted>>
    /\ UNCHANGED batch_vars

Next ==
    \/ draw_point
    \/ draw_line
    \/ draw_triangle
    \/ ProducerReturn
    \/ LoopStart
    \/ CloseRequested
    \/ RedrawRequested
    \/ UserEvent
    \/ AboutToWait
    \/ OtherEvent
    \/ LoopReturn

Spec == Init /\ [][Next]_vars

(***************************************************************************)
(* FairSpec: Spec with the scheduling of the winit event loop.  While it   *)
(* runs, the loop keeps iterating: it hands over the user events that are  *)
(* queued and emits AboutToWait at the end of every iteration.  That the   *)
(* surface texture is acquired again and again is the proviso of the       *)
(* liveness property.  Close requests, the producer and LoopReturn get no  *)
(* fairness.  The producer makes at most MaxFairPosts calls.               *)
(***************************************************************************)
FairNext == Next /\ calls' <= MaxFairPosts

Fairness ==
    /\ WF_vars(UserEvent)
    /\ WF_vars(AboutToWait)
    /\ SF_vars(RedrawWith("Ok"))

FairSpec == Init /\ [][FairNext]_vars /\ Fairness

(***************************************************************************)
(* The batch alone: a caller drives Commands directly.                     *)
(***************************************************************************)
BatchInit ==
    /\ ctx = [width |-> u32(800), height |-> u32(600)]
    /\ overflow_checks = FALSE
    /\ producer = "returned"
    /\ channel = <<>>
    /\ loop = "created"
    /\ redraw_requested = FALSE
    /\ renderer_commands = Commands_new
    /\ pass = None
    /\ last_surface = "none"
    /\ last_frame = "none"
    /\ result = "pending"
    /\ exit_causes = {}
    /\ calls = 0
    /\ last_call = None
    /\ posted = <<>>
    /\ enqueued = <<>>

BatchCall(next, event) ==
    /\ Len(enqueued) < MaxEnqueues
    /\ renderer_commands' = next
    /\ enqueued' = Append(enqueued, event)
    /\ UNCHANGED pass
    /\ UNCHANGED producer_vars
    /\ UNCHANGED loop_vars

Batch_enqueue_point ==
    \E a \in BatchPoints :
        BatchCall(enqueue_point(renderer_commands, a[1]), DrawEvent_Point(a[1]))

Batch_enqueue_line ==
    \E a \in BatchLines :
        BatchCall(enqueue_line(renderer_commands, a[1], a[2]),
                  DrawEvent_Line(a[1], a[2]))

Batch_enqueue_triangle ==
    \E a \in BatchTriangles :
        BatchCall(enqueue_triangle(renderer_commands, a[1], a[2], a[3]),
                  DrawEvent_Triangle(a[1], a[2], a[3]))

Batch_prepare ==
    /\ renderer_commands' = prepare(renderer_commands)
    /\ UNCHANGED <<pass, enqueued>>
    /\ UNCHANGED producer_vars
    /\ UNCHANGED loop_vars

\* render is only called on a prepared batch (Renderer::render)
Batch_render ==
    /\ renderer_commands.buffer /= None
    /\ pass' = Some(Commands_render(renderer_commands))
    /\ UNCHANGED <<renderer_commands, enqueued>>
    /\ UNCHANGED producer_vars
    /\ UNCHANGED loop_vars

BatchNext ==
    \/ Batch_enqueue_point
    \/ Batch_enqueue_line
    \/ Batch_enqueue_triangle
    \/ Batch_prepare
    \/ Batch_render

BatchSpec == BatchInit /\ [][BatchNext]_vars

(***************************************************************************)
(* ConvertSpec: the coordinate conversion alone.  The canvas size is drawn *)
(* from sizes that reach up to the u32 range, the loop is never started,   *)
(* and the producer's draw_point calls convert points lying at the origin, *)
(* at the centre, at the far corner and beyond the canvas.                 *)
(***************************************************************************)
\* the u32 quotient max / 2
Half(w) == [hi |-> 0, lo |-> w.hi * Two30 + w.lo \div 2]

\* 2^31 - 1
LoMax == Two30 + (Two30 - 1)

ConvertSizes ==
    {<<u32(1), u32(1)>>, <<u32(2), u32(2)>>, <<u32(3), u32(3)>>,
     <<u32(800), u32(600)>>, <<u32(LoMax), u32(LoMax)>>,
     <<u32_high(0), u32_high(0)>>, <<u32_high(LoMax), u32_high(LoMax)>>}

ConvertPoints(size) ==
    {<<u32(0), u32(0)>>, <<Half(size[1]), Half(size[2])>>, size,
     <<u32(0), size[2]>>, <<size[1], u32(0)>>, PA, PO}

ConvertInit ==
    /\ \E size \in ConvertSizes : ctx = [width |-> size[1], height |-> size[2]]
    /\ overflow_checks \in BOOLEAN
    /\ producer = "running"
    /\ channel = <<>>
    /\ loop = "created"
    /\ redraw_requested = FALSE
    /\ renderer_commands = Commands_new
    /\ pass = None
    /\ last_surface = "none"
    /\ last_frame = "none"
    /\ result = "pending"
    /\ exit_causes = {}
    /\ calls = 0
    /\ last_call = None
    /\ posted = <<>>
    /\ enqueued = <<>>

Convert_draw_point ==
    \E p \in ConvertPoints(<<ctx.width, ctx.height>>) :
        DrawCall("draw_point", <<p>>, RED, draw_point_event(ctx, p, RED))

ConvertNext == Convert_draw_point

ConvertSpec == ConvertInit /\ [][ConvertNext]_vars

(***************************************************************************)
(* Reference notions the properties are stated with.                       *)
(***************************************************************************)
\* the primitive kinds of a log of enqueue calls
KindsOf(log) == [i \in 1..Len(log) |-> log[i].kind]

\* the positions where a maximal run of equal kinds starts
RunStarts(ks) == {i \in 1..Len(ks) : i = 1 \/ ks[i] /= ks[i - 1]}

\* the start of the j-th maximal run
RunStart(ks, j) ==
    CHOOSE s \in RunStarts(ks) : Cardinality({t \in RunStarts(ks) : t < s}) = j - 1

\* the length of the maximal run starting at s
RunLength(ks, s) ==
    LET e == CHOOSE e \in s..Len(ks) :
                 /\ \A i \in s..e : ks[i] = ks[s]
                 /\ e = Len(ks) \/ ks[e + 1] /= ks[s]
    IN  e - s + 1

\* vertices per primitive, as the documentation states them
VerticesPerPrimitive(kind) ==
    IF kind = "Point" THEN 1 ELSE IF kind = "Line" THEN 2 ELSE 3

RECURSIVE Flatten(_)
\* the vertices of a log of primitives, in order
Flatten(log) ==
    IF log = <<>> THEN <<>> ELSE log[1].vs \o Flatten(Tail(log))

RECURSIVE VertexTotal(_)
\* the number of vertices a log of primitives contributes
VertexTotal(log) ==
    IF log = <<>> THEN 0
    ELSE VerticesPerPrimitive(log[1].kind) + VertexTotal(Tail(log))

IsPrefix(a, b) == Len(a) <= Len(b) /\ a = SubSeq(b, 1, Len(a))

CountsOf(cmds) == [i \in 1..Len(cmds) |-> cmds[i].count]

PrimitivesOf(cmds) == [i \in 1..Len(cmds) |-> cmds[i].primitive]

\* this step is an enqueue_* call on the batch
EnqueueStep == Len(enqueued') = Len(enqueued) + 1

(***************************************************************************)
(* C1.  The command list is the run-length encoding of the enqueued kinds: *)
(* one command per maximal run of consecutive same-kind enqueues, in       *)
(* order, its count the run's length; runs of one kind separated by        *)
(* another kind are not merged.                                            *)
(***************************************************************************)
C1_RunLengthEncoding ==
    LET ks   == KindsOf(enqueued)
        cmds == renderer_commands.commands
    IN  /\ Len(cmds) = Cardinality(RunStarts(ks))
        /\ \A j \in 1..Len(cmds) :
             /\ cmds[j].primitive = ks[RunStart(ks, j)]
             /\ cmds[j].count = RunLength(ks, RunStart(ks, j))
        /\ ks = <<"Point", "Line", "Triangle">> =>
             /\ CountsOf(cmds) = <<1, 1, 1>>
             /\ Len(renderer_commands.vertices) = 6

\* A, A, B, A has been enqueued and gave counts 2, 1, 1
C1_Witness ==
    /\ KindsOf(enqueued) = <<"Triangle", "Triangle", "Point", "Triangle">>
    /\ CountsOf(renderer_commands.commands) = <<2, 1, 1>>
    /\ PrimitivesOf(renderer_commands.commands) = <<"Triangle", "Point", "Triangle">>

(***************************************************************************)
(* C2.  One enqueue of kind K either increments the count of the last      *)
(* command (when it has kind K), leaving its begin_index, the number of    *)
(* commands and the earlier commands as they were, or appends one command  *)
(* of kind K with count 1 whose begin_index is the length of the vertex    *)
(* sequence before the call.                                               *)
(***************************************************************************)
C2_MergeOrPush ==
    [][EnqueueStep =>
        LET k   == enqueued'[Len(enqueued')].kind
            old == renderer_commands.commands
            new == renderer_commands'.commands
            n   == Len(old)
        IN  IF n > 0 /\ old[n].primitive = k
            THEN /\ Len(new) = n
                 /\ new[n] = [primitive |-> k,
                              begin_index |-> old[n].begin_index,
                              count |-> old[n].count + 1]
                 /\ \A i \in 1..(n - 1) : new[i] = old[i]
            ELSE /\ Len(new) = n + 1
                 /\ new[n + 1] = [primitive |-> k,
                                  begin_index |-> Len(renderer_commands.vertices),
                                  count |-> 1]
                 /\ \A i \in 1..n : new[i] = old[i]]_vars

\* both cases have happened: a run was extended, then a command pushed
\* behind vertices already in the sequence
C2_Witness ==
    /\ Len(renderer_commands.commands) = 2
    /\ renderer_commands.commands[1] =
         [primitive |-> "Line", begin_index |-> 0, count |-> 2]
    /\ renderer_commands.commands[2] =
         [primitive |-> "Point", begin_index |-> 4, count |-> 1]

(***************************************************************************)
(* C3.  The vertex sequence is the concatenation, in enqueue order, of the *)
(* vertices of every primitive enqueued so far, each primitive's vertices  *)
(* in argument order; no step (enqueue, prepare, render) removes,          *)
(* overwrites or reorders a vertex already in the sequence.                *)
(***************************************************************************)
C3_AppendOnlyVertices ==
    /\ [](renderer_commands.vertices = Flatten(enqueued))
    /\ [][IsPrefix(renderer_commands.vertices, renderer_commands'.vertices)]_vars

\* a line and a triangle with distinct vertices are in the sequence and a
\* frame has been prepared and rendered over them
C3_Witness ==
    /\ KindsOf(enqueued) = <<"Line", "Triangle">>
    /\ renderer_commands.vertices = <<V1, V2, V3, V1, V2>>
    /\ renderer_commands.buffer = Some(renderer_commands.vertices)
    /\ pass /= None

(***************************************************************************)
(* C4.  The length of the vertex sequence is the sum of the vertices the   *)
(* enqueue calls contributed (1 per point, 2 per line, 3 per triangle);    *)
(* each enqueue grows it by exactly the vertex count of its kind and no    *)
(* step shrinks it.                                                        *)
(***************************************************************************)
C4_VertexLength ==
    /\ [](Len(renderer_commands.vertices) = VertexTotal(enqueued))
    /\ [][/\ Len(renderer_commands'.vertices) >= Len(renderer_commands.vertices)
          /\ EnqueueStep =>
               Len(renderer_commands'.vertices) =
                 Len(renderer_commands.vertices)
                   + VerticesPerPrimitive(enqueued'[Len(enqueued')].kind)]_vars

\* a point, a line and two triangles: 1 + 2 + 3 + 3 vertices
C4_Witness ==
    /\ KindsOf(enqueued) = <<"Point", "Line", "Triangle", "Triangle">>
    /\ Len(renderer_commands.vertices) = 9

(***************************************************************************)
(* C5.  For every command of the batch, end_index - begin_index =          *)
(* count * vertices-per-primitive(kind), with Point = 1, Line = 2,         *)
(* Triangle = 3.                                                           *)
(***************************************************************************)
C5_CommandRange ==
    \A i \in 1..Len(renderer_commands.commands) :
        LET c == renderer_commands.commands[i]
        IN  /\ end_index(c) - c.begin_index
                 = c.count * VerticesPerPrimitive(c.primitive)
            /\ vertex_count(c.primitive) = VerticesPerPrimitive(c.primitive)

\* commands of all three kinds, one of them a run of two
C5_Witness ==
    /\ PrimitivesOf(renderer_commands.commands) = <<"Point", "Line", "Triangle">>
    /\ CountsOf(renderer_commands.commands) = <<1, 2, 1>>
    /\ end_index(renderer_commands.commands[2]) = 5

(***************************************************************************)
(* Reference notions for the producer and the event loop.                  *)
(***************************************************************************)
\* the number of primitives of one kind held by a command list
RECURSIVE KindTotal(_, _)
KindTotal(cmds, kind) ==
    IF cmds = <<>> THEN 0
    ELSE (IF cmds[1].primitive = kind THEN cmds[1].count ELSE 0)
         + KindTotal(Tail(cmds), kind)

\* the number of events of one kind in a log
KindEvents(log, kind) == Cardinality({i \in 1..Len(log) : log[i].kind = kind})

\* the DrawEvent variant a draw_* method is documented to post
VariantOf(method) ==
    IF method = "draw_point" THEN "Point"
    ELSE IF method = "draw_line" THEN "Line" ELSE "Triangle"

\* this step is a draw_* call of the producer
CallStep == calls' = calls + 1

\* the call of this step; last_call' holds it
ThisCall == last_call'[1]

\* the call of this step doubles a coordinate that does not fit in a u32
CallOverflows ==
    \E i \in 1..Len(ThisCall.points) :
        mul2_overflows(ThisCall.points[i][1]) \/ mul2_overflows(ThisCall.points[i][2])

\* the event is the one the call of this step has to post
MatchesCall(event) ==
    /\ event.kind = VariantOf(ThisCall.method)
    /\ Len(event.vs) = Len(ThisCall.points)
    /\ \A i \in 1..Len(event.vs) :
         /\ event.vs[i].color = ThisCall.color
         /\ event.vs[i].position =
              <<convert_x(ThisCall.points[i][1], ctx.width),
                convert_y(ThisCall.points[i][2], ctx.height)>>

\* exactly one event, the call's, joined the channel and nothing else changed
PostsExactlyOne ==
    /\ Len(posted') = Len(posted) + 1
    /\ posted' = Append(posted, posted'[Len(posted')])
    /\ channel' = Append(channel, posted'[Len(posted')])
    /\ MatchesCall(posted'[Len(posted')])
    /\ ctx' = ctx
    /\ UNCHANGED <<renderer_commands, pass, enqueued, loop, result>>

\* this step is the loop handing the oldest queued event to the closure
Delivered ==
    /\ channel /= <<>>
    /\ channel' = Tail(channel)
    /\ loop' = loop

(***************************************************************************)
(* C6.  Draw events are delivered in post order under every interleaving   *)
(* of the producer's calls with the loop's events, posts made before the   *)
(* loop runs included: the primitives the renderer enqueued are, in order, *)
(* the first events the producer posted.                                   *)
(***************************************************************************)
C6_FifoDelivery ==
    /\ IsPrefix(enqueued, posted)
    /\ renderer_commands.vertices = Flatten(SubSeq(posted, 1, Len(enqueued)))
    /\ \A k \in DrawPrimitive :
         KindTotal(renderer_commands.commands, k)
           = KindEvents(SubSeq(posted, 1, Len(enqueued)), k)
    /\ loop /= "exited" => posted = enqueued \o channel

\* three events of three kinds were posted and all were enqueued
C6_Witness ==
    /\ KindsOf(posted) = <<"Triangle", "Point", "Line">>
    /\ enqueued = posted
    /\ Len(renderer_commands.vertices) = 6

(***************************************************************************)
(* C7.  Every event delivered to the loop is consumed exactly once:        *)
(* handle_event forwards it to the enqueue operation of its kind with its  *)
(* vertices unchanged; it is not dropped, duplicated or enqueued as        *)
(* another kind.                                                           *)
(***************************************************************************)
C7_ConsumedOnce ==
    [][Delivered =>
        LET e == Head(channel)
            new == renderer_commands'.commands
        IN  /\ renderer_commands'.vertices = renderer_commands.vertices \o e.vs
            /\ new[Len(new)].primitive = e.kind
            /\ \A k \in DrawPrimitive :
                 KindTotal(new, k) =
                   KindTotal(renderer_commands.commands, k)
                     + (IF k = e.kind THEN 1 ELSE 0)]_vars

\* one event of each kind has been delivered and consumed
C7_Witness ==
    /\ KindsOf(enqueued) = <<"Line", "Triangle", "Point">>
    /\ channel = <<>>
    /\ \A k \in DrawPrimitive : KindTotal(renderer_commands.commands, k) = 1

(***************************************************************************)
(* C8.  As stated: each draw_point / draw_line / draw_triangle call posts  *)
(* exactly one DrawEvent of the matching variant, one vertex per point in  *)
(* argument order, each with the given color, and changes nothing else.    *)
(* Stated here for the calls whose coordinates double without overflow,    *)
(* which already fails: a call made once the event loop is dropped posts   *)
(* nothing.                                                                *)
(***************************************************************************)
C8_EveryCallPosts ==
    [][(CallStep /\ ~CallOverflows) => PostsExactlyOne]_vars

(***************************************************************************)
(* C8, amended.  Each draw_* call that returns posts exactly one DrawEvent *)
(* of the matching variant, one vertex per point in argument order, each   *)
(* with the given color, and changes nothing else; a call that panics      *)
(* (the send fails on a dropped event loop, or an overflow-checked build   *)
(* doubles a coordinate of 2^31 or more) posts nothing.  The context's     *)
(* width and height never change.                                          *)
(***************************************************************************)
C8_ReturningCallPosts ==
    [][/\ ctx' = ctx
       /\ CallStep =>
            IF producer' = "running"
            THEN PostsExactlyOne
            ELSE /\ posted' = posted
                 /\ channel' = channel
                 /\ UNCHANGED <<renderer_commands, pass, enqueued, loop, result>>]_vars

\* a point, a line and a triangle were posted by three returning calls
C8_Witness ==
    /\ KindsOf(posted) = <<"Point", "Line", "Triangle">>
    /\ posted[2].vs = <<convert_point(ctx, PA, GREEN), convert_point(ctx, PB, GREEN)>>
    /\ producer = "running"
    /\ last_call = Some([method |-> "draw_triangle", points |-> <<PA, PB, PC>>,
                         color |-> BLUE])

(***************************************************************************)
(* C9.  Posting after the render loop has terminated never silently        *)
(* succeeds: the call panics, with the send failure whenever it gets as    *)
(* far as sending, and its event is neither queued nor enqueued into the   *)
(* batch; nothing is enqueued after the loop has exited.                   *)
(***************************************************************************)
C9_PostAfterExitFails ==
    /\ [][(CallStep /\ loop = "exited") =>
            /\ producer' \in {"panicked: Failed to send draw event",
                              "panicked: attempt to multiply with overflow"}
            /\ (~(overflow_checks /\ CallOverflows)) =>
                 producer' = "panicked: Failed to send draw event"
            /\ posted' = posted
            /\ channel' = channel]_vars
    /\ [][loop = "exited" =>
            /\ loop' = "exited"
            /\ channel' = <<>>
            /\ renderer_commands' = renderer_commands
            /\ enqueued' = enqueued]_vars

\* a call made after the loop exited died on the send
C9_Witness ==
    /\ loop = "exited"
    /\ producer = "panicked: Failed to send draw event"
    /\ last_call /= None
    /\ Len(posted) = 1
    /\ enqueued = <<>>

(***************************************************************************)
(* C10.  When surface acquisition fails with OutOfMemory the loop          *)
(* terminates and the failure is propagated: Canvas::run and draw return   *)
(* the error, not Ok.                                                      *)
(***************************************************************************)
C10_OutOfMemoryPropagated ==
    (exit_causes = {"oom"} /\ loop = "exited") => result = "Err"

\* ---------------------------------------------------------------------------
\* The render loop and surface errors
\* ---------------------------------------------------------------------------

\* a step that handles WindowEvent::RedrawRequested: the only step that
\* consumes the redraw request while the loop is still dispatching
RedrawStep == redraw_requested /\ ~redraw_requested' /\ loop' /= "exited"

\* the surface errors other than OutOfMemory
RecoverableErrors == SurfaceResults \ {"Ok", "OutOfMemory"}

\* C11: a failure to acquire the surface texture other than OutOfMemory never
\* ends the render loop. On Lost the surface is reconfigured, on any other
\* such error the error is logged; in both cases no frame is drawn, the loop
\* stays as it was, and while it runs it still takes the next idle tick, the
\* redraw that tick requests, and the draw events waiting on the channel.
C11_RecoverableErrorKeepsLoop ==
    /\ [][(RedrawStep /\ last_surface' \in RecoverableErrors) =>
            /\ last_frame' = IF last_surface' = "Lost" THEN "reconfigured"
                                                       ELSE "logged"
            /\ loop' = loop
            /\ exit_causes' = exit_causes
            /\ result' = result
            /\ pass' = pass
            /\ channel' = channel]_vars
    /\ []((last_surface \in RecoverableErrors /\ loop = "running") =>
            /\ ENABLED AboutToWait
            /\ redraw_requested => ENABLED RedrawRequested
            /\ channel /= <<>> => ENABLED UserEvent)

\* a lost surface was the last thing a redraw met, the loop is still running,
\* a handled draw event waits for its first frame and the next redraw is
\* already requested
C11_Witness ==
    /\ last_surface = "Lost"
    /\ last_frame = "reconfigured"
    /\ loop = "running"
    /\ pass = None
    /\ Len(enqueued) = 1
    /\ redraw_requested

\* C12: the render loop ends exactly when a window-close request is handled
\* or a redraw meets an OutOfMemory surface error: a running loop is left only
\* by one of these two steps, each of them leaves it, and run returns (draw
\* resolves) only after the loop was told to exit. No other step (a posted or
\* handled draw event, an idle tick, a presented or skipped frame, the
\* producer's callback returning or panicking) ends the loop.
C12_LoopEndsOnCloseOrOom ==
    /\ [][(loop = "running" /\ loop' /= "running") =>
            /\ loop' = "exiting"
            /\ \/ exit_causes' = {"close"} /\ ~RedrawStep
               \/ RedrawStep /\ last_surface' = "OutOfMemory"]_vars
    /\ [][(RedrawStep /\ last_surface' = "OutOfMemory") =>
            loop' = "exiting"]_vars
    /\ [][(loop = "running" /\ "close" \in exit_causes') =>
            loop' = "exiting"]_vars
    /\ [][(loop /= "exited" /\ loop' = "exited") =>
            (loop = "exiting" /\ result = "pending" /\ result' /= "pending")]_vars
    /\ [](result /= "pending" <=> loop = "exited")
    /\ [](loop \in {"exiting", "exited"} <=> exit_causes /= {})

\* the loop has ended although the producer is still running and a posted draw
\* event was never handled: only the close request ended it
C12_Witness ==
    /\ loop = "exited"
    /\ exit_causes = {"close"}
    /\ result /= "pending"
    /\ producer = "running"
    /\ last_frame = "logged"
    /\ Len(posted) = 2
    /\ Len(enqueued) = 1

\* ---------------------------------------------------------------------------
\* Rendering the batch
\* ---------------------------------------------------------------------------

\* the pipeline the renderer keeps for a kind of primitive
PipelineFor(kind) ==
    IF kind = "Point" THEN "point_pipeline"
    ELSE IF kind = "Line" THEN "line_pipeline" ELSE "triangle_pipeline"

\* the draw calls a log of enqueue calls determines: one per maximal run of
\* equal kinds, over the vertices that run contributed
DrawsOf(log) ==
    LET ks == KindsOf(log)
    IN  [j \in 1..Cardinality(RunStarts(ks)) |->
           LET s   == RunStart(ks, j)
               off == VertexTotal(SubSeq(log, 1, s - 1))
           IN  [pipeline  |-> PipelineFor(ks[s]),
                vertices  |-> <<off, off + RunLength(ks, s) *
                                            VerticesPerPrimitive(ks[s])>>,
                instances |-> <<0, 1>>]]

\* a step that records a render pass
RenderStep == pass' /= pass

\* C13: rendering is deterministic. The ordered list of draw calls (pipeline
\* and index range) a render issues is a function of the sequence of enqueue
\* calls the batch received so far and of nothing else, so rendering again
\* without an enqueue in between, or rendering another batch fed the same
\* calls, issues the identical list; and prepare and render leave the command
\* list and the vertex sequence as they were.
C13_RenderDeterminism ==
    /\ [][RenderStep => pass'[1].draws = DrawsOf(enqueued')]_vars
    /\ [][enqueued' = enqueued =>
            /\ renderer_commands'.commands = renderer_commands.commands
            /\ renderer_commands'.vertices = renderer_commands.vertices]_vars
    /\ [][(pass /= None /\ pass[1].draws = DrawsOf(enqueued)
             /\ enqueued' = enqueued) => pass'[1].draws = pass[1].draws]_vars

\* a prepared batch of four primitives in three runs was rendered, and the
\* recorded pass is the one its log determines
C13_Witness ==
    /\ pass /= None
    /\ Len(enqueued) = 4
    /\ Len(pass[1].draws) = 3
    /\ pass[1].draws = DrawsOf(enqueued)
    /\ renderer_commands.buffer = Some(renderer_commands.vertices)

\* C14: render binds the vertex buffer once and then issues exactly one draw
\* call per command, in the order of the command list, each with the pipeline
\* of the command's kind, over the vertices from begin_index up to but not
\* including begin_index + count * (vertices per primitive), and with the
\* single instance 0..1.
C14_OneDrawPerCommand ==
    [][RenderStep =>
         LET r    == pass'[1]
             cmds == renderer_commands.commands
         IN  /\ ~r.panic
             /\ r.bound = <<renderer_commands.buffer[1]>>
             /\ Len(r.draws) = Len(cmds)
             /\ \A i \in 1..Len(cmds) :
                  /\ r.draws[i].pipeline = PipelineFor(cmds[i].primitive)
                  /\ r.draws[i].vertices =
                       <<cmds[i].begin_index,
                         cmds[i].begin_index +
                           cmds[i].count * VerticesPerPrimitive(cmds[i].primitive)>>
                  /\ r.draws[i].instances = <<0, 1>>]_vars

\* a pass over two commands was recorded: a run of two lines drawn as one
\* call over four vertices, then a triangle
C14_Witness ==
    /\ pass /= None
    /\ Len(pass[1].bound) = 1
    /\ Len(pass[1].draws) = 2
    /\ pass[1].draws[1].pipeline = "line_pipeline"
    /\ pass[1].draws[1].vertices = <<0, 4>>
    /\ pass[1].draws[2].pipeline = "triangle_pipeline"
    /\ pass[1].draws[2].vertices = <<4, 7>>
    /\ PrimitivesOf(renderer_commands.commands) = <<"Line", "Triangle">>

\* a step in which a redraw acquired the surface texture and drew a frame
FrameStep == RedrawStep /\ last_surface' = "Ok"

\* C15: every frame's prepare uploads the entire accumulated vertex sequence
\* and no draw event is handled between prepare and render, so the buffer
\* bound by the frame's render holds exactly the current vertex sequence and
\* every draw range of the frame lies within it.
C15_BufferCoversDraws ==
    [][FrameStep =>
         LET vs == renderer_commands.vertices
         IN  /\ enqueued' = enqueued
             /\ channel' = channel
             /\ renderer_commands'.vertices = vs
             /\ renderer_commands'.buffer = Some(vs)
             /\ pass' /= None
             /\ ~pass'[1].panic
             /\ pass'[1].bound = <<vs>>
             /\ \A i \in 1..Len(pass'[1].draws) :
                  /\ 0 <= pass'[1].draws[i].vertices[1]
                  /\ pass'[1].draws[i].vertices[1] <=
                       pass'[1].draws[i].vertices[2]
                  /\ pass'[1].draws[i].vertices[2] <= Len(vs)]_vars

\* a frame was presented for a batch of a point and a line handled from the
\* channel: the bound buffer is the whole vertex sequence and the last draw
\* ends at its length
C15_Witness ==
    /\ last_frame = "presented"
    /\ pass /= None
    /\ KindsOf(enqueued) = <<"Point", "Line">>
    /\ pass[1].bound = <<renderer_commands.vertices>>
    /\ Len(pass[1].draws) = 2
    /\ pass[1].draws[2].vertices = <<1, Len(renderer_commands.vertices)>>

\* the command list and the vertex sequence of the batch are left as they were
BatchDataUnchanged ==
    /\ renderer_commands'.commands = renderer_commands.commands
    /\ renderer_commands'.vertices = renderer_commands.vertices

\* C16: the command list and the vertex sequence change only when the render
\* loop handles a draw event taken from the channel. A producer's draw_* call
\* at most appends one event to the channel and never touches them; a redraw
\* (frame drawn or not), an idle tick, a close request and the return of the
\* loop never change them.
C16_OnlyLoopMutatesBatch ==
    /\ [][~BatchDataUnchanged =>
            /\ Delivered
            /\ Dispatching
            /\ calls' = calls
            /\ producer' = producer
            /\ enqueued' = Append(enqueued, Head(channel))]_vars
    /\ [][CallStep =>
            /\ BatchDataUnchanged
            /\ enqueued' = enqueued
            /\ \/ channel' = channel
               \/ /\ Len(posted') = Len(posted) + 1
                  /\ channel' = Append(channel, posted'[Len(posted')])]_vars
    /\ [][(RedrawStep \/ redraw_requested' /= redraw_requested \/ loop' /= loop)
            => BatchDataUnchanged]_vars

\* the loop has handled one draw event and drawn it, while the producer has
\* already posted two more that wait on the channel
C16_Witness ==
    /\ Len(channel) = 2
    /\ Len(enqueued) = 1
    /\ Len(renderer_commands.commands) = 1
    /\ pass /= None
    /\ Len(pass[1].draws) = 1
    /\ producer = "running"
    /\ loop = "running"

\* ---------------------------------------------------------------------------
\* Coordinate conversion
\* ---------------------------------------------------------------------------

\* a <= b on [hi, lo] values
WideLeq(a, b) == a.hi < b.hi \/ (a.hi = b.hi /\ a.lo <= b.lo)

\* a + 1 on [hi, lo] values
WideSucc(a) ==
    IF a.lo = LoMax THEN [hi |-> a.hi + 1, lo |-> 0]
                    ELSE [hi |-> a.hi, lo |-> a.lo + 1]

\* the value sign * (num / den - 1) of a conversion result is 1.0
ValueIsOne(t) ==
    IF t.sign = 1 THEN t.num = double(t.den) ELSE t.num = u32(0)

\* the value is -1.0
ValueIsMinusOne(t) ==
    IF t.sign = 1 THEN t.num = u32(0) ELSE t.num = double(t.den)

\* the value lies in [-1, 1]
ValueInUnit(t) == WideLeq(t.num, double(t.den))

\* the value is 0.0 up to one pixel step: |num - den| <= 1
ValueNearZero(t) ==
    t.num = t.den \/ WideSucc(t.num) = t.den \/ WideSucc(t.den) = t.num

\* the point converted by the draw_point call of this step
ThisPoint == ThisCall.points[1]

\* the vertex the call of this step posted
ThisVertex == posted'[Len(posted')].vs[1]

\* C17: the conversion checks no bounds and never fails: for every u32
\* coordinate (beyond max and beyond 2^31 included) the call returns, and
\* convert_x is (2x)/max - 1 and convert_y is 1 - (2y)/max on the true value
\* of the doubled coordinate, so a coordinate beyond max maps outside [-1, 1].
C17_ConversionNeverWraps ==
    [][CallStep =>
         /\ producer' = "running"
         /\ Len(posted') = Len(posted) + 1
         /\ ThisVertex.position[1] =
              [num |-> double(ThisPoint[1]), den |-> ctx.width, sign |-> 1]
         /\ ThisVertex.position[2] =
              [num |-> double(ThisPoint[2]), den |-> ctx.height, sign |-> -1]
         /\ ~WideLeq(ThisPoint[1], ctx.width) =>
              ~ValueInUnit(ThisVertex.position[1])
         /\ ~WideLeq(ThisPoint[2], ctx.height) =>
              ~ValueInUnit(ThisVertex.position[2])]_vars

\* the point of this step's call lies on the canvas: 0 <= x <= width and
\* 0 <= y <= height
ThisPointInRange ==
    WideLeq(ThisPoint[1], ctx.width) /\ WideLeq(ThisPoint[2], ctx.height)

\* C18: for every max > 0 the origin converts to x = -1.0 and y = 1.0, max
\* converts to x = 1.0 and y = -1.0, max / 2 converts to about 0.0 on both
\* axes, and every coordinate in [0, max] converts into [-1, 1]; pixel
\* (20, 20) of an 800 x 600 canvas converts to (-0.95, 0.9333...).
C18_EndpointsAndCentre ==
    [][(CallStep /\ ThisPointInRange) =>
         /\ Len(posted') = Len(posted) + 1
         /\ ValueInUnit(ThisVertex.position[1])
         /\ ValueInUnit(ThisVertex.position[2])
         /\ ThisPoint[1] = u32(0) => ValueIsMinusOne(ThisVertex.position[1])
         /\ ThisPoint[2] = u32(0) => ValueIsOne(ThisVertex.position[2])
         /\ ThisPoint[1] = ctx.width => ValueIsOne(ThisVertex.position[1])
         /\ ThisPoint[2] = ctx.height => ValueIsMinusOne(ThisVertex.position[2])
         /\ ThisPoint[1] = Half(ctx.width) =>
              ValueNearZero(ThisVertex.position[1])
         /\ ThisPoint[2] = Half(ctx.height) =>
              ValueNearZero(ThisVertex.position[2])
         /\ (ThisPoint = PA /\ ctx.width = u32(800) /\ ctx.height = u32(600)) =>
              /\ 20 * (ThisVertex.position[1].num.lo - 800) = -19 * 800
              /\ 15 * (600 - ThisVertex.position[2].num.lo) = 14 * 600]_vars

\* ---------------------------------------------------------------------------
\* Shape of the command list
\* ---------------------------------------------------------------------------

\* the index just past a command's vertices
PastEnd(c) == c.begin_index + c.count * VerticesPerPrimitive(c.primitive)

\* the half-open ranges <<from, to>> follow one another from 0 up to n, none
\* of them empty
Tiles(ranges, n) ==
    /\ ranges = <<>> <=> n = 0
    /\ ranges /= <<>> =>
         /\ ranges[1][1] = 0
         /\ ranges[Len(ranges)][2] = n
    /\ \A i \in 1..Len(ranges) : ranges[i][1] < ranges[i][2]
    /\ \A i \in 1..(Len(ranges) - 1) : ranges[i][2] = ranges[i + 1][1]

\* C19: the commands tile the vertex sequence: the first begins at 0, each
\* ends where the next begins, the last ends at the length of the vertex
\* sequence, and the command list is empty exactly when the vertex sequence
\* is; so the draw calls of a render over the whole sequence cover every
\* vertex exactly once, in submission order.
C19_CommandsTileVertices ==
    /\ [] Tiles([i \in 1..Len(renderer_commands.commands) |->
                   <<renderer_commands.commands[i].begin_index,
                     PastEnd(renderer_commands.commands[i])>>],
                Len(renderer_commands.vertices))
    /\ [][RenderStep =>
            Tiles([i \in 1..Len(pass'[1].draws) |-> pass'[1].draws[i].vertices],
                  Len(renderer_commands.vertices))]_vars

\* three commands over six vertices (a point, a run of two lines, a point)
\* and a render pass recorded over all of them
C19_Witness ==
    /\ PrimitivesOf(renderer_commands.commands) = <<"Point", "Line", "Point">>
    /\ CountsOf(renderer_commands.commands) = <<1, 2, 1>>
    /\ [i \in 1..3 |-> renderer_commands.commands[i].begin_index] = <<0, 1, 5>>
    /\ Len(renderer_commands.vertices) = 6
    /\ pass /= None
    /\ [i \in 1..3 |-> pass[1].draws[i].vertices] = <<<<0, 1>>, <<1, 5>>, <<5, 6>>>>

\* C20: the command list is minimal: no two adjacent commands have the same
\* kind, and every command counts at least one primitive.
C20_MinimalCommandList ==
    LET cmds == renderer_commands.commands
    IN  /\ \A i \in 1..(Len(cmds) - 1) : cmds[i].primitive /= cmds[i + 1].primitive
        /\ \A i \in 1..Len(cmds) : cmds[i].count >= 1

\* four enqueued primitives of which the two lines and the two triangles
\* were merged: two commands, each counting two
C20_Witness ==
    /\ KindsOf(enqueued) = <<"Line", "Line", "Triangle", "Triangle">>
    /\ Len(renderer_commands.commands) = 2
    /\ CountsOf(renderer_commands.commands) = <<2, 2>>

\* ---------------------------------------------------------------------------
\* Frames that fail, frames that follow, and the first frame
\* ---------------------------------------------------------------------------

\* C21: a redraw whose surface acquisition fails (Lost, OutOfMemory or any
\* other error) leaves the batch untouched: nothing is prepared, rendered,
\* submitted or presented, and the command list, the vertex sequence and the
\* buffer uploaded before are as they were; so the next frame that does get
\* its texture draws every primitive handled so far.
C21_FailedFrameLeavesBatch ==
    /\ [][(RedrawStep /\ last_surface' /= "Ok") =>
            /\ renderer_commands' = renderer_commands
            /\ pass' = pass
            /\ enqueued' = enqueued
            /\ last_frame' /= "presented"]_vars
    /\ [][FrameStep =>
            /\ pass'[1].bound = <<Flatten(enqueued)>>
            /\ pass'[1].draws = DrawsOf(enqueued)]_vars

\* a frame with one point was presented, a line was handled afterwards, and
\* the last redraw failed: the pass and the buffer are still those of the
\* presented frame, the line waits in the vertex sequence
C21_Witness ==
    /\ last_surface = "Timeout"
    /\ last_frame = "logged"
    /\ loop = "running"
    /\ KindsOf(enqueued) = <<"Point", "Line">>
    /\ pass /= None
    /\ Len(pass[1].draws) = 1
    /\ Len(renderer_commands.buffer[1]) = 1
    /\ Len(renderer_commands.vertices) = 3

\* C23: Commands::render is never reached without an uploaded buffer: every
\* frame prepares the batch before it renders it, so the unwrap of the buffer
\* does not panic, on the first frame and on a frame of an empty batch too.
C23_RenderAfterPrepare ==
    /\ [][FrameStep =>
            /\ renderer_commands'.buffer /= None
            /\ pass' /= None
            /\ ~pass'[1].panic
            /\ Len(pass'[1].bound) = 1]_vars
    /\ [](pass /= None =>
            (~pass[1].panic /\ renderer_commands.buffer /= None))
    /\ [](renderer_commands.buffer = None => last_frame /= "presented")

\* the first frame was presented before any draw event was handled: the
\* buffer is the empty upload and the pass issued no draw call
C23_Witness ==
    /\ last_frame = "presented"
    /\ enqueued = <<>>
    /\ pass /= None
    /\ ~pass[1].panic
    /\ pass[1].bound = <<<<>>>>
    /\ pass[1].draws = <<>>
    /\ renderer_commands.buffer = Some(<<>>)

\* the k-th posted draw event exists and the loop is running
PostedToRunningLoop(k) == Len(posted) >= k /\ loop = "running"

\* the first k posted draw events were handled and the last submitted frame
\* holds their vertices
DrawnUpTo(k) ==
    /\ Len(enqueued) >= k
    /\ pass /= None
    /\ IsPrefix(Flatten(SubSeq(posted, 1, k)), pass[1].bound[1])

\* C22: every idle tick requests a redraw, so every draw event posted to the
\* running loop is eventually handled and then part of a submitted frame,
\* unless the loop is ended (close request, OutOfMemory); this under fair
\* scheduling of the loop's events and a surface acquisition that succeeds
\* again and again.
C22_PostedEventuallyDrawn ==
    /\ [](Dispatching => ENABLED (AboutToWait /\ redraw_requested'))
    /\ \A k \in 1..MaxFairPosts :
         PostedToRunningLoop(k) ~> (DrawnUpTo(k) \/ loop /= "running")

\* the loop is still running, every event the producer posted was handled
\* and the last submitted frame holds all their vertices
C22_Witness ==
    /\ loop = "running"
    /\ Len(posted) = 2
    /\ enqueued = posted
    /\ channel = <<>>
    /\ pass /= None
    /\ pass[1].bound = <<Flatten(posted)>>
    /\ last_frame = "presented"

====
